---- MODULE Spec2Model ----
\* Model of the Textract table-extractor add-on (src/main.py): one run of
\* TableExtractor.main, from reading the configuration to the upload of the
\* archive, with the host platform (document store, credit ledger) and the
\* analysis service as nondeterministic collaborators.
EXTENDS Integers, Sequences, FiniteSets, TLC

\* ---------------------------------------------------------------- bounds
MaxDocs == 2          \* documents returned by get_documents()
MaxPageCount == 3     \* largest document.page_count
MaxPage == 3          \* largest configured start_page / end_page
MaxTables == 2        \* largest len(doc.tables) of one analysed page
MaxCredits == 6       \* the richest organization can pay for this many pages

\* ------------------------------------------------------ program constants
CreditsPerPage == 10

NoDocumentsMessage == "It looks like no documents were selected. Search for some or select them and run again."
NoOrganizationMessage == "No organization to charge."
InsufficientCreditsMessage == "You do not have sufficient AI credits to run this Add-On on this document set"
EndBeforeStartMessage == "The end page you provided is smaller than the start page, try again"
StartBelowOneMessage == "Your start page is less than 1, please try again"

\* ------------------------------------------------------------------ state
VARIABLES
  data,             \* self.data: the configured options (a dict; a key may be absent)
  documents,        \* self.get_documents(): sequence of [id, page_count]
  no_selection,     \* TRUE iff self.get_document_count() is None
  org_id,           \* self.org_id (0 is the falsy value)
  balance,          \* the organization's credit balance in the ledger
  balance0,         \* the balance when the run started
  pc,               \* position of the run in main()
  message,          \* last text given to set_message ("" = none)
  error,            \* the uncaught exception that ended the run ("none" = none)
  ai_credit_cost,   \* validate's local: result of calculate_cost
  charge_calls,     \* number of calls of charge_credits
  charge_outcome,   \* "none", "ok", "ValueError" or "APIError"
  di,               \* index of the current document of the for loop (1-based)
  page_number,      \* loop variable of the page loop
  tables,           \* len(doc.tables) of the page just analysed
  rendered,         \* sequence of <<id, page>> given to get_large_image/convert_to_png
  analyzed,         \* sequence of <<id, page>> given to analyze_document
  results,          \* sequence of [id, page, n]: n tables detected on the page
  cwd,              \* the process's working directory, a path (sequence of names)
  files,            \* the files on disk, each a path
  archive,          \* entry names of all_tables.zip
  uploads,          \* number of calls of upload_file that succeeded
  uploaded          \* the entries of the archive handed to upload_file

vars == <<data, documents, no_selection, org_id, balance, balance0, pc, message,
          error, ai_credit_cost, charge_calls, charge_outcome, di, page_number,
          tables, rendered, analyzed, results, cwd, files, archive, uploads,
          uploaded>>

\* ----------------------------------------------------------------- inputs
\* One optional key of the options dict: absent, or present with a value of S.
Opt(k, S) == {<<>>} \cup {k :> v : v \in S}

DataSet ==
  {f @@ s @@ e : f \in Opt("output_format", {"csv", "xlsx"}),
                 s \in Opt("start_page", 0..MaxPage),
                 e \in Opt("end_page", 0..MaxPage)}

\* The identifier the store gives its i-th document; identifiers are distinct.
DocId(i) == 10 + i

DocumentLists ==
  UNION {{[i \in 1..n |-> [id |-> DocId(i), page_count |-> pcs[i]]] :
            pcs \in [1..n -> 1..MaxPageCount]} : n \in 0..MaxDocs}

Balances == {0, CreditsPerPage * MaxCredits}

\* ---------------------------------------------------------------- helpers
\* dict.get(key, default)
Get(d, k, default) == IF k \in DOMAIN d THEN d[k] ELSE default

\* main's locals (lines 81-83)
output_format == Get(data, "output_format", "csv")
start_page == Get(data, "start_page", 1)
end_page == Get(data, "end_page", 1)

\* calculate_cost, lines 26-30: the last page of one document
last_page(e, page_count) == IF e <= page_count THEN e ELSE page_count

\* calculate_cost, line 31
pages_to_analyze(s, e, page_count) == last_page(e, page_count) - s + 1

\* calculate_cost, the loop of lines 22-32 over the documents
RECURSIVE total_num_pages(_, _, _)
total_num_pages(docs, s, e) ==
  IF docs = <<>> THEN 0
  ELSE pages_to_analyze(s, e, Head(docs).page_count) + total_num_pages(Tail(docs), s, e)

\* calculate_cost reads end_page with data.get("end_page"), without a default:
\* an absent key gives None, and `None <= doc.page_count` raises TypeError in
\* the first iteration of the loop.
calculate_cost_raises(docs, d) == docs # <<>> /\ "end_page" \notin DOMAIN d

\* calculate_cost when it does not raise (with no document the loop body, and
\* so end_page, is never evaluated: the 0 below is never used).
calculate_cost(docs, d) ==
  total_num_pages(docs, Get(d, "start_page", 1), Get(d, "end_page", 0)) * CreditsPerPage

\* Variant of validate_result: an APIError of the ledger is swallowed and
\* validate still returns True.
validate_result_swallow(outcome) == outcome # "ValueError"

\* validate, lines 49-55: the value it returns for an outcome of charge_credits
validate_result(outcome) == outcome = "ok"

\* Variant of after_validate: a failed validation is tried again.
after_validate_retry(ok) == IF ok THEN "range_check" ELSE "charge"

\* main, lines 84-88: where the run goes after validate returned
after_validate(ok) == IF ok THEN "range_check" ELSE "aborted"

\* Variant of range_message: the start page is compared with 0, not with 1.
range_message_zero(s, e) ==
  IF e < s THEN EndBeforeStartMessage
  ELSE IF s < 0 THEN StartBelowOneMessage
  ELSE ""

\* Variant of range_message: the comparison of end and start is missing.
range_message_start_only(s, e) ==
  IF s < 1 THEN StartBelowOneMessage
  ELSE ""

\* main, lines 90-97: the message of the range check ("" = the range passes)
range_message(s, e) ==
  IF e < s THEN EndBeforeStartMessage
  ELSE IF s < 1 THEN StartBelowOneMessage
  ELSE ""

\* Variant of outer_bound: the configured end page is taken as exclusive.
outer_bound_exclusive(e, page_count) == IF e > page_count THEN page_count + 1 ELSE e

\* main, lines 105-107
outer_bound(e, page_count) == IF e > page_count THEN page_count + 1 ELSE e + 1

\* Variant of documents_exhausted: the loop stops one document early.
documents_exhausted_early(i, docs) == i >= Len(docs)

\* main, line 104: the for loop over the documents is over
documents_exhausted(i, docs) == i > Len(docs)

\* main, lines 121-139: extension of the output files
extension(fmt) == IF fmt = "csv" THEN ".csv" ELSE ".xlsx"

\* main, lines 126 and 137: name of the file of one table
table_filename(id, page, i, fmt) ==
  ToString(id) \o "-" \o ToString(page) \o "-table" \o ToString(i) \o extension(fmt)

\* main, lines 110 and 113: names of the page images
gif_filename(id, page) == ToString(id) \o "-page" \o ToString(page) \o ".gif"
png_filename(id, page) == ToString(id) \o "-page" \o ToString(page) \o ".png"

\* p is a path strictly below directory dir
Below(p, dir) == Len(p) > Len(dir) /\ SubSeq(p, 1, Len(dir)) = dir

\* Variant of zip_entries: the walk starts at the parent directory of dir.
zip_entries_parent(fs, dir) ==
  {SubSeq(p, Len(dir), Len(p)) :
     p \in {q \in fs : Below(q, SubSeq(dir, 1, Len(dir) - 1))}}

\* main, lines 141-145: os.walk(dir) and os.path.relpath(file_path, dir):
\* the entries of the archive are the files below dir, named relative to it.
zip_entries(fs, dir) == {SubSeq(p, Len(dir) + 1, Len(p)) : p \in {q \in fs : Below(q, dir)}}

\* ------------------------------------------------------------------- Init
Init ==
  /\ data \in DataSet
  /\ no_selection \in BOOLEAN
  /\ documents \in (IF no_selection THEN {<<>>} ELSE DocumentLists)
  /\ org_id \in {0, 1}
  /\ balance \in Balances
  /\ balance0 = balance
  /\ pc = "validate"
  /\ message = ""
  /\ error = "none"
  /\ ai_credit_cost = 0
  /\ charge_calls = 0
  /\ charge_outcome = "none"
  /\ di = 0
  /\ page_number = 0
  /\ tables = 0
  /\ rendered = <<>>
  /\ analyzed = <<>>
  /\ results = <<>>
  /\ cwd = <<>>
  /\ files = {}
  /\ archive = {}
  /\ uploads = 0
  /\ uploaded = {}

\* ---------------------------------------------------------------- actions
\* validate, lines 39-44: no documents were selected
ValidateNoDocuments ==
  /\ pc = "validate"
  /\ no_selection
  /\ message' = NoDocumentsMessage
  /\ pc' = "aborted"
  /\ UNCHANGED <<data, documents, no_selection, org_id, balance, balance0, error,
                 ai_credit_cost, charge_calls, charge_outcome, di, page_number,
                 tables, rendered, analyzed, results, cwd, files, archive,
                 uploads, uploaded>>

\* validate, lines 45-47: no organization to charge
ValidateNoOrganization ==
  /\ pc = "validate"
  /\ ~no_selection
  /\ org_id = 0
  /\ message' = NoOrganizationMessage
  /\ pc' = "aborted"
  /\ UNCHANGED <<data, documents, no_selection, org_id, balance, balance0, error,
                 ai_credit_cost, charge_calls, charge_outcome, di, page_number,
                 tables, rendered, analyzed, results, cwd, files, archive,
                 uploads, uploaded>>

\* validate, line 48: ai_credit_cost = self.calculate_cost(self.get_documents())
CalculateCost ==
  /\ pc = "validate"
  /\ ~no_selection
  /\ org_id # 0
  /\ IF calculate_cost_raises(documents, data)
     THEN /\ error' = "TypeError"
          /\ pc' = "crashed"
          /\ UNCHANGED ai_credit_cost
     ELSE /\ ai_credit_cost' = calculate_cost(documents, data)
          /\ pc' = "charge"
          /\ UNCHANGED error
  /\ UNCHANGED <<data, documents, no_selection, org_id, balance, balance0, message,
                 charge_calls, charge_outcome, di, page_number, tables, rendered,
                 analyzed, results, cwd, files, archive, uploads, uploaded>>

\* validate, lines 49-55, and main, lines 84-88: charge_credits(ai_credit_cost).
\* The ledger accepts the charge only when the balance covers it; it may raise
\* ValueError or APIError (both caught: validate returns False).
ChargeCredits ==
  /\ pc = "charge"
  /\ \E outcome \in {"ok", "ValueError", "APIError"} :
       /\ outcome = "ok" => ai_credit_cost <= balance
       /\ charge_outcome' = outcome
       /\ balance' = IF outcome = "ok" THEN balance - ai_credit_cost ELSE balance
       /\ pc' = after_validate(validate_result(outcome))
       /\ message' = IF validate_result(outcome) THEN message
                     ELSE InsufficientCreditsMessage
  /\ charge_calls' = charge_calls + 1
  /\ UNCHANGED <<data, documents, no_selection, org_id, balance0, error,
                 ai_credit_cost, di, page_number, tables, rendered, analyzed,
                 results, cwd, files, archive, uploads, uploaded>>

\* main, lines 90-97: the range check
RangeCheck ==
  /\ pc = "range_check"
  /\ IF range_message(start_page, end_page) # ""
     THEN /\ message' = range_message(start_page, end_page)
          /\ pc' = "aborted"
     ELSE /\ pc' = "setup"
          /\ UNCHANGED message
  /\ UNCHANGED <<data, documents, no_selection, org_id, balance, balance0, error,
                 ai_credit_cost, charge_calls, charge_outcome, di, page_number,
                 tables, rendered, analyzed, results, cwd, files, archive,
                 uploads, uploaded>>

\* main, lines 99-103: the credential file, the Textractor client and the
\* working directories out/ and out/tables/. os.environ["TOKEN"] raises
\* KeyError when the secret is not in the environment.
Setup ==
  /\ pc = "setup"
  /\ \E ok \in BOOLEAN :
       IF ok
       THEN /\ cwd' = cwd \o <<"out">>
            /\ di' = 1
            /\ page_number' = start_page
            /\ pc' = "process"
            /\ UNCHANGED error
       ELSE /\ error' = "KeyError"
            /\ pc' = "crashed"
            /\ UNCHANGED <<cwd, di, page_number>>
  /\ UNCHANGED <<data, documents, no_selection, org_id, balance, balance0, message,
                 ai_credit_cost, charge_calls, charge_outcome, tables, rendered,
                 analyzed, results, files, archive, uploads, uploaded>>

\* main, lines 104-108: the page loop of the current document is over, the
\* for loop takes the next document
NextDocument ==
  /\ pc = "process"
  /\ ~documents_exhausted(di, documents)
  /\ page_number >= outer_bound(end_page, documents[di].page_count)
  /\ di' = di + 1
  /\ page_number' = start_page
  /\ UNCHANGED <<data, documents, no_selection, org_id, balance, balance0, pc,
                 message, error, ai_credit_cost, charge_calls, charge_outcome,
                 tables, rendered, analyzed, results, cwd, files, archive,
                 uploads, uploaded>>

\* main, lines 109-115: get_large_image, the .gif file, convert_to_png. A
\* failure of the download or of the conversion is not caught.
RenderPage ==
  /\ pc = "process"
  /\ ~documents_exhausted(di, documents)
  /\ page_number < outer_bound(end_page, documents[di].page_count)
  /\ rendered' = Append(rendered, <<documents[di].id, page_number>>)
  /\ \E ok \in BOOLEAN :
       IF ok
       THEN /\ files' = files \cup
                  {cwd \o <<gif_filename(documents[di].id, page_number)>>,
                   cwd \o <<png_filename(documents[di].id, page_number)>>}
            /\ pc' = "analyze"
            /\ UNCHANGED error
       ELSE /\ error' = "RenderError"
            /\ pc' = "crashed"
            /\ UNCHANGED files
  /\ UNCHANGED <<data, documents, no_selection, org_id, balance, balance0, message,
                 ai_credit_cost, charge_calls, charge_outcome, di, page_number,
                 tables, analyzed, results, cwd, archive, uploads, uploaded>>

\* main, lines 116-120: extractor.analyze_document; the service returns the
\* tables of the page, or fails (not caught).
AnalyzePage ==
  /\ pc = "analyze"
  /\ analyzed' = Append(analyzed, <<documents[di].id, page_number>>)
  /\ \/ \E n \in 0..MaxTables :
          /\ tables' = n
          /\ results' = Append(results, [id |-> documents[di].id,
                                         page |-> page_number, n |-> n])
          /\ pc' = "emit"
          /\ UNCHANGED error
     \/ /\ error' = "AnalysisError"
        /\ pc' = "crashed"
        /\ UNCHANGED <<tables, results>>
  /\ UNCHANGED <<data, documents, no_selection, org_id, balance, balance0, message,
                 ai_credit_cost, charge_calls, charge_outcome, di, page_number,
                 rendered, cwd, files, archive, uploads, uploaded>>

\* main, lines 121-139: one file per table in tables/ (chdir in and back out),
\* then the next page
EmitTables ==
  /\ pc = "emit"
  /\ files' = files \cup
       {cwd \o <<"tables">> \o
          <<table_filename(documents[di].id, page_number, i, output_format)>> :
        i \in 0..(tables - 1)}
  /\ page_number' = page_number + 1
  /\ pc' = "process"
  /\ UNCHANGED <<data, documents, no_selection, org_id, balance, balance0, message,
                 error, ai_credit_cost, charge_calls, charge_outcome, di, tables,
                 rendered, analyzed, results, cwd, archive, uploads, uploaded>>

\* main, lines 141-145: all_tables.zip from the files below tables/
Archive ==
  /\ pc = "process"
  /\ documents_exhausted(di, documents)
  /\ archive' = zip_entries(files, cwd \o <<"tables">>)
  /\ files' = files \cup {cwd \o <<"all_tables.zip">>}
  /\ pc' = "deliver"
  /\ UNCHANGED <<data, documents, no_selection, org_id, balance, balance0, message,
                 error, ai_credit_cost, charge_calls, charge_outcome, di,
                 page_number, tables, rendered, analyzed, results, cwd, uploads,
                 uploaded>>

\* main, line 146: upload_file; a failure of the platform is not caught
UploadFile ==
  /\ pc = "deliver"
  /\ \E ok \in BOOLEAN :
       IF ok
       THEN /\ uploads' = uploads + 1
            /\ uploaded' = archive
            /\ pc' = "done"
            /\ UNCHANGED error
       ELSE /\ error' = "UploadError"
            /\ pc' = "crashed"
            /\ UNCHANGED <<uploads, uploaded>>
  /\ UNCHANGED <<data, documents, no_selection, org_id, balance, balance0, message,
                 ai_credit_cost, charge_calls, charge_outcome, di, page_number,
                 tables, rendered, analyzed, results, cwd, files, archive>>

Next ==
  \/ ValidateNoDocuments
  \/ ValidateNoOrganization
  \/ CalculateCost
  \/ ChargeCredits
  \/ RangeCheck
  \/ Setup
  \/ NextDocument
  \/ RenderPage
  \/ AnalyzePage
  \/ EmitTables
  \/ Archive
  \/ UploadFile

Spec == Init /\ [][Next]_vars

\* ================================================================ claims
\* Vocabulary of the claims, written from their statements.
Min(a, b) == IF a <= b THEN a ELSE b
Max0(a) == IF a >= 0 THEN a ELSE 0

\* effective pages of one document: max(0, min(e, P) - s + 1)
EffectivePages(s, e, page_count) == Max0(Min(e, page_count) - s + 1)

RECURSIVE SumEffectivePages(_, _, _)
SumEffectivePages(docs, s, e) ==
  IF docs = <<>> THEN 0
  ELSE EffectivePages(s, e, Head(docs).page_count) + SumEffectivePages(Tail(docs), s, e)

\* the pages s, s+1, ..., min(e, P) of every document, documents in order
RECURSIVE ExpectedPages(_, _, _)
ExpectedPages(docs, s, e) ==
  IF docs = <<>> THEN <<>>
  ELSE [k \in 1..EffectivePages(s, e, Head(docs).page_count) |-> <<Head(docs).id, s + k - 1>>]
       \o ExpectedPages(Tail(docs), s, e)

IsPrefix(a, b) == Len(a) <= Len(b) /\ SubSeq(b, 1, Len(a)) = a

RECURSIVE SumTables(_)
SumTables(rs) == IF rs = <<>> THEN 0 ELSE Head(rs).n + SumTables(Tail(rs))

EndPageOmitted == "end_page" \notin DOMAIN data
InvalidRange == end_page < start_page \/ start_page < 1
ClampedRangeEmpty ==
  \E i \in 1..Len(documents) : Min(end_page, documents[i].page_count) < start_page
CostComputed == pc = "charge" \/ charge_calls > 0
Terminated == pc \in {"aborted", "crashed", "done"}
NoWork == rendered = <<>> /\ analyzed = <<>> /\ results = <<>>
NoDelivery == uploads = 0 /\ uploaded = {} /\ archive = {}
ChargeFailed == charge_outcome \in {"ValueError", "APIError"}

\* one name per detected table: {document_id}-{page_number}-table{i} + extension
ExpectedEntries ==
  UNION {{<<ToString(results[k].id) \o "-" \o ToString(results[k].page) \o "-table"
            \o ToString(i) \o (IF output_format = "csv" THEN ".csv" ELSE ".xlsx")>> :
          i \in 0..(results[k].n - 1)} : k \in 1..Len(results)}

\* the output files written to the output subdirectory, by name
OutputFilesWritten ==
  {<<p[3]>> : p \in {q \in files : Len(q) = 3 /\ q[1] = "out" /\ q[2] = "tables"}}

\* C1: the cost calculate_cost computes is 10 times the sum over the documents
\* of max(0, min(e, page_count) - s + 1); it is never negative.
C1_CostIsClampedSum ==
  CostComputed =>
    /\ ai_credit_cost = 10 * SumEffectivePages(documents, start_page, end_page)
    /\ ai_credit_cost >= 0

\* C2 as stated: with an invalid configured range or an empty clamped range
\* the job aborts without charge_credits having been called and without work.
C2_AbortBeforeCharge ==
  (InvalidRange \/ ClampedRangeEmpty) =>
    /\ charge_calls = 0
    /\ NoWork
    /\ Terminated => pc = "aborted"

\* C2 amended: with an invalid configured range no page is ever rendered or
\* analyzed and nothing is delivered, and the run never gets past the range
\* check; the range check itself comes after the charge, so a run aborted with
\* a range message has called charge_credits once, successfully. A range
\* message is only ever given for an invalid configured range.
C2_InvalidRangeNoWork ==
  /\ InvalidRange =>
       /\ NoWork /\ NoDelivery
       /\ pc \in {"validate", "charge", "range_check", "aborted", "crashed"}
       /\ pc = "crashed" => error = "TypeError"
  /\ message \in {EndBeforeStartMessage, StartBelowOneMessage} =>
       /\ InvalidRange
       /\ pc = "aborted"
       /\ charge_calls = 1 /\ charge_outcome = "ok"
       /\ balance = balance0 - ai_credit_cost

C2_Witness ==
  /\ start_page < 1
  /\ end_page >= start_page
  /\ documents # <<>>
  /\ pc = "aborted"
  /\ message = StartBelowOneMessage
  /\ charge_calls = 1
  /\ ai_credit_cost > 0
  /\ balance = balance0 - ai_credit_cost

\* C3 as stated: whenever end_page < start_page the job ends aborted with the
\* end-before-start message, whenever start_page < 1 (and end_page >=
\* start_page) with the start-less-than-1 message; no page, no archive.
C3_RangeMessageAlways ==
  Terminated =>
    /\ end_page < start_page =>
         pc = "aborted" /\ message = EndBeforeStartMessage /\ NoWork /\ NoDelivery
    /\ (start_page < 1 /\ end_page >= start_page) =>
         pc = "aborted" /\ message = StartBelowOneMessage /\ NoWork /\ NoDelivery

\* C3 amended: once validation has passed (charge_credits succeeded) and the
\* range check has run, end_page < start_page means the job is aborted with the
\* end-before-start message, and start_page < 1 (with end_page >= start_page)
\* that it is aborted with the start-less-than-1 message; no page is rendered
\* or analyzed and no archive is delivered.
C3_RangeMessageAfterValidation ==
  (charge_outcome = "ok" /\ pc # "range_check") =>
    /\ end_page < start_page =>
         pc = "aborted" /\ message = EndBeforeStartMessage /\ NoWork /\ NoDelivery
    /\ (start_page < 1 /\ end_page >= start_page) =>
         pc = "aborted" /\ message = StartBelowOneMessage /\ NoWork /\ NoDelivery

C3_Witness ==
  /\ end_page < start_page
  /\ documents # <<>>
  /\ charge_outcome = "ok"
  /\ pc = "aborted"
  /\ message = EndBeforeStartMessage

\* C4: charge_credits is called at most once in a run, and after a successful
\* call the balance is the initial balance less the computed cost, on every
\* later step of the run; without a successful call the balance is untouched.
C4_ChargedAtMostOnce ==
  /\ charge_calls <= 1
  /\ charge_outcome = "ok" => (charge_calls = 1 /\ balance = balance0 - ai_credit_cost)
  /\ charge_outcome # "ok" => balance = balance0
  /\ charge_calls = 0 <=> charge_outcome = "none"

C4_Witness ==
  /\ pc = "done"
  /\ charge_calls = 1
  /\ ai_credit_cost > 0
  /\ balance = balance0 - ai_credit_cost
  /\ Len(analyzed) > 1

C6_PagesInOrder ==
  /\ IsPrefix(analyzed, rendered)
  /\ Len(rendered) <= Len(analyzed) + 1
  /\ pc \in {"setup", "process", "analyze", "emit", "deliver", "done", "crashed"} =>
       IsPrefix(rendered, ExpectedPages(documents, start_page, end_page))
  /\ pc \in {"deliver", "done"} =>
       /\ rendered = ExpectedPages(documents, start_page, end_page)
       /\ analyzed = rendered

C6_Witness ==
  /\ pc = "done"
  /\ Len(documents) = 2
  /\ documents[1].page_count < start_page
  /\ analyzed = <<<<documents[2].id, start_page>>, <<documents[2].id, start_page + 1>>>>

\* C7: at delivery the entries of the archive are exactly the output files
\* written, one per detected table, named {document_id}-{page_number}-table{i}
\* with the extension of the format; distinct tables have distinct names; no
\* page image and no directory prefix is in the archive.
C7_ArchiveIsTables ==
  pc \in {"deliver", "done"} =>
    /\ archive = ExpectedEntries
    /\ archive = OutputFilesWritten
    /\ Cardinality(archive) = SumTables(results)
    /\ \A entry \in archive : Len(entry) = 1
    /\ pc = "done" => uploaded = archive

C7_Witness ==
  /\ pc = "done"
  /\ Len(results) >= 2
  /\ \E k \in 1..Len(results) : results[k].n >= 2
  /\ Cardinality(uploaded) >= 3

\* C8: the archive is delivered at most once, exactly once in a run that is
\* done, and only when every in-range page has been rendered and analyzed and
\* its tables written; never in a run that aborted or crashed, and a run that
\* crashes after the charge keeps the credits charged.
C8_DeliveredOnceAtEnd ==
  /\ uploads <= 1
  /\ pc = "done" <=> uploads = 1
  /\ (pc = "deliver" \/ uploads > 0 \/ archive # {}) =>
       /\ analyzed = ExpectedPages(documents, start_page, end_page)
       /\ Len(results) = Len(analyzed)
       /\ \A entry \in ExpectedEntries : <<"out", "tables">> \o entry \in files
  /\ pc \in {"aborted", "crashed"} => (uploads = 0 /\ uploaded = {})
  /\ (pc = "crashed" /\ charge_outcome = "ok") => balance = balance0 - ai_credit_cost

C8_Witness ==
  /\ pc = "done"
  /\ uploads = 1
  /\ Len(documents) = 2
  /\ Len(analyzed) >= 3
  /\ uploaded # {}

\* C9: with the end_page option omitted the job behaves as with end_page = 1
\* and does not fail because of the missing option.
C9_EndPageDefaultsToOne ==
  EndPageOmitted =>
    /\ error # "TypeError"
    /\ CostComputed => ai_credit_cost = total_num_pages(documents, start_page, 1) * CreditsPerPage
    /\ pc = "done" => analyzed = ExpectedPages(documents, start_page, 1)

\* C10: in a run that is done, the amount charged is 10 times the number of
\* (document, page) pairs rendered and analyzed.
C10_ChargeMatchesWork ==
  pc = "done" =>
    /\ balance0 - balance = 10 * Len(analyzed)
    /\ ai_credit_cost = 10 * Len(rendered)
====
